---- MODULE Spec2Model ----
(***************************************************************************)
(* Model of the Renderer of ts-pbr-renderer (src/graphics/Renderer.ts):    *)
(* the draw-state cache, the statistics, the uniform block plumbing and    *)
(* the shader registry.                                                    *)
(*                                                                         *)
(* Object references are string handles, `undefined` is the handle         *)
(* "undefined".  A mat4/mat3 is a 2x2 integer matrix <<a, b, c, d>> (rows   *)
(* <<a, b>> and <<c, d>>); the inputs are unimodular or singular, so that  *)
(* gl-matrix's invert / normalFromMat4 are exact.  `null` is <<>>.         *)
(* The calls the renderer issues on its collaborators (gl, shader,         *)
(* material, buffers, uniform blocks) are logged, per operation, in        *)
(* `calls`.                                                                *)
(***************************************************************************)
EXTENDS Integers, Sequences, FiniteSets, TLC

VARIABLES
    current_vertex_buffer,  \* Renderer.current_vertex_buffer
    current_index_buffer,   \* Renderer.current_index_buffer
    current_material,       \* Renderer.current_material
    current_shader,         \* Renderer.current_shader
    stats,                  \* Renderer.stats (RendererStats)
    _Shaders,               \* Renderer._Shaders: name -> shader handle
    shader_class,           \* per constructed shader: the class it was built with
    block_binding,          \* per shader: binding point of each uniform block
    temp,                   \* module-level scratch mat4
    modelview_matrix,       \* module-level scratch mat4
    normalview_matrix,      \* module-level scratch mat3 | null
    mvp_matrix,             \* module-level scratch mat4
    gl_program,             \* shader most recently put in use (gl.useProgram)
    gl_material,            \* material most recently activated
    gl_vertex_buffer,       \* vertex buffer most recently bound
    gl_index_buffer,        \* index buffer most recently bound
    returned_draws,         \* history: the draws that returned normally since the
                            \* statistics were last reset (or the renderer constructed)
    since_draw,             \* history: the cache-clearing operations run between the
                            \* last two draws, or since the last draw when last_op is none
    last_op,                \* the operation that ran last, with its arguments
    calls,                  \* collaborator calls issued by last_op, in order
    thrown                  \* error thrown by last_op, or NoError

vars == << current_vertex_buffer, current_index_buffer, current_material,
           current_shader, stats, _Shaders, shader_class, block_binding,
           temp, modelview_matrix, normalview_matrix, mvp_matrix,
           gl_program, gl_material, gl_vertex_buffer, gl_index_buffer,
           returned_draws, since_draw, last_op, calls, thrown >>

-----------------------------------------------------------------------------
(* Values *)

Undefined == "undefined"
Null == << >>

NoError == "none"
UnknownIndexBufferType == "Unknown index buffer type"
DeterminantError == "Determinant could not be calculated for normalview_matrix"
TypeError == "TypeError"

\* bound: no statistics counter of binds or draw calls is driven past this
MaxStat == 2

\* gl enums used by draw
UNSIGNED_SHORT == 5123
UNSIGNED_INT == 5125

PerFrameBinding == 0
PerModelBinding == 1

\* ShaderSources: Object.values(ShaderSource), in declaration order
ShaderSources ==
    << [name |-> "BasicShader", vert |-> "standard.vert", frag |-> "basic.frag",
        subclass |-> "BasicShader"],
       [name |-> "PBRShader", vert |-> "standard.vert", frag |-> "pbr.frag",
        subclass |-> "PBRShader"],
       [name |-> "NormalOnlyShader", vert |-> "standard.vert", frag |-> "normals.frag",
        subclass |-> Undefined],
       [name |-> "EquiToCubemapShader", vert |-> "standard.vert",
        frag |-> "equirectangularToCubemap.frag", subclass |-> "EquiToCubemapShader"],
       [name |-> "CubemapToIrradianceShader", vert |-> "standard.vert",
        frag |-> "irradiance.frag", subclass |-> "CubemapToIrradianceShader"],
       [name |-> "CubemapSpecularPrefilter", vert |-> "standard.vert",
        frag |-> "specularPrefilter.frag", subclass |-> "CubemapSpecularPrefilterShader"],
       [name |-> "GridShader", vert |-> "grid.vert", frag |-> "grid.frag",
        subclass |-> Undefined],
       [name |-> "BRDFShader", vert |-> "brdf.vert", frag |-> "brdf.frag",
        subclass |-> Undefined] >>

\* names asked of GetShader: the registered ones and some that are not
QueriedNames ==
    { ShaderSources[i].name : i \in 1..Len(ShaderSources) }
        \cup { "Shader", "CubemapSpecularPrefilterShader", "SkyboxShader" }

\* materials handed to draw, each with its fixed shader (Material.shader)
Materials == { "pbr_gold", "pbr_rust", "grid" }

MaterialShader(mat) ==
    CASE mat = "pbr_gold" -> "PBRShader"
      [] mat = "pbr_rust" -> "PBRShader"
      [] mat = "grid" -> "GridShader"

VertexBuffers == { "vb_sphere", "vb_plane" }

\* index buffers over a Uint16Array, a Uint32Array and a Uint8Array
IndexBuffers == { "ib_u16", "ib_u32", "ib_u8" }

BYTES_PER_ELEMENT(index_buffer) ==
    CASE index_buffer = "ib_u16" -> 2
      [] index_buffer = "ib_u32" -> 4
      [] index_buffer = "ib_u8" -> 1

\* the (draw_mode, count, offset) triples handed to draw:
\* gl.TRIANGLES, 6 elements from offset 0; gl.LINES, 6 elements from offset 12
DrawRanges == { << 4, 6, 0 >>, << 1, 6, 12 >> }

Identity == << 1, 0, 0, 1 >>
Shear == << 1, 1, 0, 1 >>
Flip == << 0, 1, 1, 0 >>
Singular == << 1, 0, 0, 0 >>

Matrices == { Identity, Shear, Flip, Singular }

-----------------------------------------------------------------------------
(* gl-matrix *)

det(a) == a[1] * a[4] - a[2] * a[3]

\* mat4.create()
create == Identity

\* mat4.mul(out, a, b): out = a * b
mul(a, b) ==
    << a[1] * b[1] + a[2] * b[3], a[1] * b[2] + a[2] * b[4],
       a[3] * b[1] + a[4] * b[3], a[3] * b[2] + a[4] * b[4] >>

\* mat4.invert(out, a): null when the determinant is 0
invert(a) ==
    IF det(a) = 0 THEN Null
    ELSE << a[4] \div det(a), (0 - a[2]) \div det(a),
            (0 - a[3]) \div det(a), a[1] \div det(a) >>

transpose(a) == << a[1], a[3], a[2], a[4] >>

\* mat3.normalFromMat4(out, a): the determinant is tested before out is
\* written; writing into a null out is a TypeError.
\* Result: [ret |-> returned value, error |-> NoError | TypeError]
normalFromMat4(out, a) ==
    IF det(a) = 0 THEN [ret |-> Null, error |-> NoError]
    ELSE IF out = Null THEN [ret |-> Null, error |-> TypeError]
    ELSE [ret |-> transpose(invert(a)), error |-> NoError]

-----------------------------------------------------------------------------
(* Logged collaborator calls *)

Call(fn, target, key, arg) == [fn |-> fn, target |-> target, key |-> key, arg |-> arg]

UseCall(shader) == Call("use", shader, "", << >>)
ActivateCall(mat) == Call("activate", mat, "", << >>)
BindBuffersCall(vertex_buffer) == Call("bindBuffers", vertex_buffer, "", << >>)
BindCall(index_buffer) == Call("bind", index_buffer, "", << >>)
DrawElementsCall(mode, count, type, offset) ==
    Call("drawElements", "gl", "", << mode, count, type, offset >>)
DrawArraysCall(mode, first, count) == Call("drawArrays", "gl", "", << mode, first, count >>)
SetCall(block, name, value) == Call("set", block, name, value)
UpdateCall(block) == Call("update", block, "", << >>)

Op(op, draw_mode, count, offset, index_buffer, vertex_buffer, mat, model, view, proj) ==
    [op |-> op, draw_mode |-> draw_mode, count |-> count, offset |-> offset,
     index_buffer |-> index_buffer, vertex_buffer |-> vertex_buffer, mat |-> mat,
     model |-> model, view |-> view, proj |-> proj]

PlainOp(op) == Op(op, 0, 0, 0, Undefined, Undefined, Undefined, Null, Null, Null)

\* since_draw after operation op (a draw starts a new interval after itself)
SinceDraw(op) ==
    IF op = "draw"
    THEN (IF last_op.op = "draw" THEN { } ELSE since_draw)
    ELSE (IF last_op.op = "draw" THEN { } ELSE since_draw) \cup { op }

\* returned_draws when no draw has returned yet
NoDraws == [number |-> 0, indexed_count |-> 0, array_count |-> 0]

\* returned_draws after one more draw of count elements has returned normally
Returned(draws, count, index_buffer) ==
    [number |-> draws.number + 1,
     indexed_count |-> draws.indexed_count + (IF index_buffer # Undefined THEN count ELSE 0),
     array_count |-> draws.array_count + (IF index_buffer = Undefined THEN count ELSE 0)]

-----------------------------------------------------------------------------
(* RendererStats *)

ZeroStats ==
    [shader_bind_count |-> 0, material_bind_count |-> 0,
     vertex_buffer_bind_count |-> 0, index_buffer_bind_count |-> 0,
     index_draw_count |-> 0, vertex_draw_count |-> 0, draw_calls |-> 0]

StatsBelowCap ==
    /\ stats.shader_bind_count < MaxStat
    /\ stats.material_bind_count < MaxStat
    /\ stats.vertex_buffer_bind_count < MaxStat
    /\ stats.index_buffer_bind_count < MaxStat
    /\ stats.draw_calls < MaxStat

-----------------------------------------------------------------------------
(* Renderer.constructor *)

\* variant: every shader is built with the base class
ShaderClass_Base(shader_source) ==
    "Shader"

\* the class a shader source is constructed with
ShaderClass(shader_source) ==
    IF shader_source.subclass # Undefined THEN shader_source.subclass ELSE "Shader"

\* Renderer._Shaders after the loop over ShaderSources[1..n]; the object
\* constructed for a source has the source's name as its handle
RECURSIVE RegisterShaders(_)
RegisterShaders(n) ==
    IF n = 0 THEN << >>
    ELSE LET shader_source == ShaderSources[n]
             before == RegisterShaders(n - 1)
         IN  [name \in (DOMAIN before) \cup { shader_source.name } |->
                 IF name = shader_source.name THEN shader_source.name ELSE before[name]]

RECURSIVE ConstructShaders(_)
ConstructShaders(n) ==
    IF n = 0 THEN << >>
    ELSE LET shader_source == ShaderSources[n]
             before == ConstructShaders(n - 1)
         IN  [shader \in (DOMAIN before) \cup { shader_source.name } |->
                 IF shader = shader_source.name THEN ShaderClass(shader_source)
                 ELSE before[shader]]

\* the shaders the second constructor loop binds the blocks of
BoundShaders(shaders) == { shaders[name] : name \in DOMAIN shaders }

BindBlocks(shaders) ==
    [shader \in BoundShaders(shaders) |->
        [ubo_per_frame |-> PerFrameBinding, ubo_per_model |-> PerModelBinding]]

GetShader(name) == IF name \in DOMAIN _Shaders THEN _Shaders[name] ELSE Undefined

Constructor ==
    /\ stats' = ZeroStats
    /\ _Shaders' = RegisterShaders(Len(ShaderSources))
    /\ shader_class' = ConstructShaders(Len(ShaderSources))
    /\ block_binding' = BindBlocks(_Shaders')
    /\ current_vertex_buffer' = Undefined
    /\ current_index_buffer' = Undefined
    /\ current_material' = Undefined
    /\ current_shader' = Undefined
    /\ returned_draws' = NoDraws
    /\ since_draw' = SinceDraw("constructor")
    /\ last_op' = PlainOp("constructor")
    /\ calls' = << >>
    /\ thrown' = NoError
    /\ UNCHANGED << temp, modelview_matrix, normalview_matrix, mvp_matrix,
                    gl_program, gl_material, gl_vertex_buffer, gl_index_buffer >>

Init ==
    /\ stats = ZeroStats
    /\ _Shaders = RegisterShaders(Len(ShaderSources))
    /\ shader_class = ConstructShaders(Len(ShaderSources))
    /\ block_binding = BindBlocks(_Shaders)
    /\ current_vertex_buffer = Undefined
    /\ current_index_buffer = Undefined
    /\ current_material = Undefined
    /\ current_shader = Undefined
    /\ temp = create
    /\ modelview_matrix = create
    /\ normalview_matrix = create
    /\ mvp_matrix = create
    /\ gl_program = Undefined
    /\ gl_material = Undefined
    /\ gl_vertex_buffer = Undefined
    /\ gl_index_buffer = Undefined
    /\ returned_draws = NoDraws
    /\ since_draw = { "constructor" }
    /\ last_op = PlainOp("constructor")
    /\ calls = << >>
    /\ thrown = NoError

-----------------------------------------------------------------------------
(* Renderer.resetStats, Renderer.resetSaveBindings *)

\* variant: the cached material survives the reset
ResetStatsBody_KeepsMaterial ==
    /\ stats' = ZeroStats
    /\ current_shader' = Undefined
    /\ UNCHANGED << current_material, current_vertex_buffer, current_index_buffer >>

\* the body of resetStats
ResetStatsBody ==
    /\ stats' = ZeroStats
    /\ current_shader' = Undefined
    /\ current_material' = Undefined
    /\ UNCHANGED << current_vertex_buffer, current_index_buffer >>

ResetStats ==
    /\ ResetStatsBody
    /\ returned_draws' = NoDraws
    /\ since_draw' = SinceDraw("resetStats")
    /\ last_op' = PlainOp("resetStats")
    /\ calls' = << >>
    /\ thrown' = NoError
    /\ UNCHANGED << _Shaders, shader_class, block_binding, temp, modelview_matrix,
                    normalview_matrix, mvp_matrix, gl_program, gl_material,
                    gl_vertex_buffer, gl_index_buffer >>

\* variant: the cached index buffer is kept
ResetSaveBindings_KeepsIndexBuffer ==
    /\ current_vertex_buffer' = Undefined
    /\ current_index_buffer' = current_index_buffer
    /\ current_material' = Undefined
    /\ current_shader' = Undefined
    /\ since_draw' = SinceDraw("resetSaveBindings")
    /\ last_op' = PlainOp("resetSaveBindings")
    /\ calls' = << >>
    /\ thrown' = NoError
    /\ UNCHANGED << stats, returned_draws, _Shaders, shader_class, block_binding, temp,
                    modelview_matrix,
                    normalview_matrix, mvp_matrix, gl_program, gl_material,
                    gl_vertex_buffer, gl_index_buffer >>

ResetSaveBindings ==
    /\ current_vertex_buffer' = Undefined
    /\ current_index_buffer' = Undefined
    /\ current_material' = Undefined
    /\ current_shader' = Undefined
    /\ since_draw' = SinceDraw("resetSaveBindings")
    /\ last_op' = PlainOp("resetSaveBindings")
    /\ calls' = << >>
    /\ thrown' = NoError
    /\ UNCHANGED << stats, returned_draws, _Shaders, shader_class, block_binding, temp,
                    modelview_matrix,
                    normalview_matrix, mvp_matrix, gl_program, gl_material,
                    gl_vertex_buffer, gl_index_buffer >>

-----------------------------------------------------------------------------
(* Renderer.draw *)

\* variant: the shader is put in use whenever a material is given
ShaderChanged_Always(mat, cached_shader) ==
    mat # Undefined

\* if (mat && mat.shader != this.current_shader)
ShaderChanged(mat, cached_shader) ==
    mat # Undefined /\ MaterialShader(mat) # cached_shader

\* variant: the material is compared by its shader
MaterialChanged_ByShader(mat, cached_material) ==
    mat # Undefined /\ MaterialShader(mat) # current_shader

\* if (mat && mat != this.current_material)
MaterialChanged(mat, cached_material) ==
    mat # Undefined /\ mat # cached_material

\* if (vertex_buffer != this.current_vertex_buffer)
VertexBufferChanged(vertex_buffer, cached_vertex_buffer) ==
    vertex_buffer # cached_vertex_buffer

\* if (index_buffer && index_buffer != this.current_index_buffer)
IndexBufferChanged(index_buffer, cached_index_buffer) ==
    index_buffer # Undefined /\ index_buffer # cached_index_buffer

\* the binds of one draw, in the order the code issues them
BindCalls(index_buffer, vertex_buffer, mat) ==
    (IF ShaderChanged(mat, current_shader)
        THEN << UseCall(MaterialShader(mat)) >> ELSE << >>)
    \o (IF MaterialChanged(mat, current_material)
        THEN << ActivateCall(mat) >> ELSE << >>)
    \o (IF VertexBufferChanged(vertex_buffer, current_vertex_buffer)
        THEN << BindBuffersCall(vertex_buffer) >> ELSE << >>)
    \o (IF IndexBufferChanged(index_buffer, current_index_buffer)
        THEN << BindCall(index_buffer) >> ELSE << >>)

\* variant: no else branch that throws
DrawError_NoThrow(index_buffer) ==
    NoError

\* the error draw throws for this index buffer, or NoError
DrawError(index_buffer) ==
    IF index_buffer # Undefined /\ BYTES_PER_ELEMENT(index_buffer) \notin { 2, 4 }
    THEN UnknownIndexBufferType
    ELSE NoError

\* variant: drawArrays with count and offset in drawElements' order
DrawCommand_ArgsSwapped(draw_mode, count, offset, index_buffer) ==
    IF index_buffer # Undefined
    THEN IF BYTES_PER_ELEMENT(index_buffer) = 2
         THEN << DrawElementsCall(draw_mode, count, UNSIGNED_SHORT, offset) >>
         ELSE IF BYTES_PER_ELEMENT(index_buffer) = 4
         THEN << DrawElementsCall(draw_mode, count, UNSIGNED_INT, offset) >>
         ELSE << >>
    ELSE << DrawArraysCall(draw_mode, count, offset) >>

\* the gl draw command of one draw
DrawCommand(draw_mode, count, offset, index_buffer) ==
    IF index_buffer # Undefined
    THEN IF BYTES_PER_ELEMENT(index_buffer) = 2
         THEN << DrawElementsCall(draw_mode, count, UNSIGNED_SHORT, offset) >>
         ELSE IF BYTES_PER_ELEMENT(index_buffer) = 4
         THEN << DrawElementsCall(draw_mode, count, UNSIGNED_INT, offset) >>
         ELSE << >>
    ELSE << DrawArraysCall(draw_mode, offset, count) >>

\* this.stats after the bind counters of one draw
BindStats(index_buffer, vertex_buffer, mat) ==
    [stats EXCEPT
        !.shader_bind_count =
            IF ShaderChanged(mat, current_shader) THEN @ + 1 ELSE @,
        !.material_bind_count =
            IF MaterialChanged(mat, current_material) THEN @ + 1 ELSE @,
        !.vertex_buffer_bind_count =
            IF VertexBufferChanged(vertex_buffer, current_vertex_buffer) THEN @ + 1 ELSE @,
        !.index_buffer_bind_count =
            IF IndexBufferChanged(index_buffer, current_index_buffer) THEN @ + 1 ELSE @]

\* variant: the count always goes to index_draw_count
DrawStats_AllIndexed(s, count, index_buffer) ==
    [s EXCEPT !.index_draw_count = @ + count, !.draw_calls = @ + 1]

\* the draw counters of a draw that did not throw
DrawStats(s, count, index_buffer) ==
    IF index_buffer # Undefined
    THEN [s EXCEPT !.index_draw_count = @ + count, !.draw_calls = @ + 1]
    ELSE [s EXCEPT !.vertex_draw_count = @ + count, !.draw_calls = @ + 1]

Draw(draw_mode, count, offset, index_buffer, vertex_buffer, mat) ==
    /\ StatsBelowCap
    /\ current_shader' =
          IF ShaderChanged(mat, current_shader) THEN MaterialShader(mat) ELSE current_shader
    /\ gl_program' =
          IF ShaderChanged(mat, current_shader) THEN MaterialShader(mat) ELSE gl_program
    /\ current_material' =
          IF MaterialChanged(mat, current_material) THEN mat ELSE current_material
    /\ gl_material' =
          IF MaterialChanged(mat, current_material) THEN mat ELSE gl_material
    /\ current_vertex_buffer' =
          IF VertexBufferChanged(vertex_buffer, current_vertex_buffer)
          THEN vertex_buffer ELSE current_vertex_buffer
    /\ gl_vertex_buffer' =
          IF VertexBufferChanged(vertex_buffer, current_vertex_buffer)
          THEN vertex_buffer ELSE gl_vertex_buffer
    /\ current_index_buffer' =
          IF IndexBufferChanged(index_buffer, current_index_buffer)
          THEN index_buffer ELSE current_index_buffer
    /\ gl_index_buffer' =
          IF IndexBufferChanged(index_buffer, current_index_buffer)
          THEN index_buffer ELSE gl_index_buffer
    /\ thrown' = DrawError(index_buffer)
    /\ calls' = BindCalls(index_buffer, vertex_buffer, mat)
                   \o DrawCommand(draw_mode, count, offset, index_buffer)
    /\ stats' = IF DrawError(index_buffer) = NoError
                THEN DrawStats(BindStats(index_buffer, vertex_buffer, mat), count, index_buffer)
                ELSE BindStats(index_buffer, vertex_buffer, mat)
    /\ returned_draws' = IF thrown' = NoError
                         THEN Returned(returned_draws, count, index_buffer)
                         ELSE returned_draws
    /\ since_draw' = SinceDraw("draw")
    /\ last_op' = Op("draw", draw_mode, count, offset, index_buffer, vertex_buffer, mat,
                     Null, Null, Null)
    /\ UNCHANGED << _Shaders, shader_class, block_binding, temp, modelview_matrix,
                    normalview_matrix, mvp_matrix >>

-----------------------------------------------------------------------------
(* Renderer.setPerFrameUniforms, Renderer.setPerModelUniforms *)

\* UniformBuffer: the block's buffer before anything is staged
EmptyBuffer ==
    [view |-> << 0, 0, 0, 0 >>, view_inverse |-> << 0, 0, 0, 0 >>,
     projection |-> << 0, 0, 0, 0 >>, view_projection |-> << 0, 0, 0, 0 >>]

\* UniformBuffer.set(name, value): the elements of value are copied into the
\* buffer when set is called
UniformBufferSet(buffer, name, value) == [buffer EXCEPT ![name] = value]

\* UniformBuffer.update(gl): the data uploaded, field after field
BufferData(buffer) ==
    buffer.view \o buffer.view_inverse \o buffer.projection \o buffer.view_projection

\* update, with the buffer it uploads
UploadCall(block, buffer) == Call("update", block, "", BufferData(buffer))

\* variant: view_inverse is staged from temp after view_projection was computed
\* into it
PerFrameBuffer_SharedTemp(view, proj) ==
    LET temp_inverse == invert(view)
        temp_product == mul(proj, view)
        staged_view == UniformBufferSet(EmptyBuffer, "view", view)
        staged_projection == UniformBufferSet(staged_view, "projection", proj)
        staged_inverse == UniformBufferSet(staged_projection, "view_inverse", temp_product)
    IN  UniformBufferSet(staged_inverse, "view_projection", temp_product)

\* the per-frame buffer when setPerFrameUniforms calls update: both mat4.invert
\* and mat4.mul write temp and return it, and each result is staged before temp is
\* written again
PerFrameBuffer(view, proj) ==
    LET staged_view == UniformBufferSet(EmptyBuffer, "view", view)
        temp_inverse == invert(view)
        staged_inverse == UniformBufferSet(staged_view, "view_inverse", temp_inverse)
        staged_projection == UniformBufferSet(staged_inverse, "projection", proj)
        temp_product == mul(proj, view)
    IN  UniformBufferSet(staged_projection, "view_projection", temp_product)

\* variant: the block is uploaded before view_projection is staged
PerFrameCalls_EarlyUpdate(view, proj) ==
    << SetCall("ubo_per_frame", "view", view),
       SetCall("ubo_per_frame", "view_inverse", invert(view)),
       SetCall("ubo_per_frame", "projection", proj),
       UpdateCall("ubo_per_frame"),
       SetCall("ubo_per_frame", "view_projection", mul(proj, view)) >>

\* the uniform block calls of setPerFrameUniforms; temp is read when set is called
PerFrameCalls(view, proj) ==
    << SetCall("ubo_per_frame", "view", view),
       SetCall("ubo_per_frame", "view_inverse", invert(view)),
       SetCall("ubo_per_frame", "projection", proj),
       SetCall("ubo_per_frame", "view_projection", mul(proj, view)),
       UploadCall("ubo_per_frame", PerFrameBuffer(view, proj)) >>

\* mat4.invert(temp, view)! : the caller passes an invertible view
SetPerFrameUniforms(view, proj) ==
    /\ invert(view) # Null
    /\ temp' = mul(proj, view)
    /\ calls' = PerFrameCalls(view, proj)
    /\ thrown' = NoError
    \* this.resetStats()
    /\ ResetStatsBody
    /\ returned_draws' = NoDraws
    /\ since_draw' = SinceDraw("setPerFrameUniforms")
    /\ last_op' = Op("setPerFrameUniforms", 0, 0, 0, Undefined, Undefined, Undefined,
                     Null, view, proj)
    /\ UNCHANGED << _Shaders, shader_class, block_binding, modelview_matrix,
                    normalview_matrix, mvp_matrix, gl_program, gl_material,
                    gl_vertex_buffer, gl_index_buffer >>

\* variant: the returned matrix is not tested for null
PerModelError_NoNullTest(normal) ==
    normal.error

\* the error setPerModelUniforms throws, given what normalFromMat4 did
PerModelError(normal) ==
    IF normal.error # NoError THEN normal.error
    ELSE IF normal.ret = Null THEN DeterminantError
    ELSE NoError

\* the uniform block calls of setPerModelUniforms
PerModelCalls(model_matrix, view_matrix, proj_matrix, normal) ==
    << SetCall("ubo_per_model", "model", model_matrix),
       SetCall("ubo_per_model", "model_view", mul(view_matrix, model_matrix)) >>
    \o (IF PerModelError(normal) = NoError
        THEN << SetCall("ubo_per_model", "normal_view", normal.ret),
                SetCall("ubo_per_model", "mvp",
                        mul(proj_matrix, mul(view_matrix, model_matrix))),
                UpdateCall("ubo_per_model") >>
        ELSE << >>)

SetPerModelUniforms(model_matrix, view_matrix, proj_matrix) ==
    LET normal == normalFromMat4(normalview_matrix, mul(view_matrix, model_matrix))
    IN  /\ modelview_matrix' = mul(view_matrix, model_matrix)
        \* the assignment to normalview_matrix happens only if normalFromMat4 returns
        /\ normalview_matrix' =
              IF normal.error = NoError THEN normal.ret ELSE normalview_matrix
        /\ mvp_matrix' =
              IF PerModelError(normal) = NoError
              THEN mul(proj_matrix, mul(view_matrix, model_matrix)) ELSE mvp_matrix
        /\ calls' = PerModelCalls(model_matrix, view_matrix, proj_matrix, normal)
        /\ thrown' = PerModelError(normal)
        /\ last_op' = Op("setPerModelUniforms", 0, 0, 0, Undefined, Undefined, Undefined,
                         model_matrix, view_matrix, proj_matrix)
        /\ UNCHANGED << current_vertex_buffer, current_index_buffer, current_material,
                        current_shader, stats, _Shaders, shader_class, block_binding, temp,
                        gl_program, gl_material, gl_vertex_buffer, gl_index_buffer,
                        returned_draws, since_draw >>

-----------------------------------------------------------------------------
(* Specifications *)

\* the renderer driving draws: every draw argument varies, the frame uniforms are
\* set from one camera
Next ==
    \/ Constructor
    \/ ResetStats
    \/ ResetSaveBindings
    \/ \E range \in DrawRanges, index_buffer \in IndexBuffers \cup { Undefined },
          vertex_buffer \in VertexBuffers, mat \in Materials \cup { Undefined } :
            Draw(range[1], range[2], range[3], index_buffer, vertex_buffer, mat)
    \/ SetPerFrameUniforms(Identity, Identity)

Spec == Init /\ [][Next]_vars

\* the renderer's uniform plumbing: every matrix argument varies
NextUniforms ==
    \/ Constructor
    \/ \E view \in Matrices, proj \in Matrices : SetPerFrameUniforms(view, proj)
    \/ \E model_matrix \in Matrices, view_matrix \in Matrices, proj_matrix \in Matrices :
          SetPerModelUniforms(model_matrix, view_matrix, proj_matrix)

SpecUniforms == Init /\ [][NextUniforms]_vars

-----------------------------------------------------------------------------
(* Properties *)

IssuesAny(cs, fn) == \E i \in DOMAIN cs : cs[i].fn = fn
Issues(cs, fn, target) == \E i \in DOMAIN cs : cs[i].fn = fn /\ cs[i].target = target
NumCalls(cs, fns) == Cardinality({ i \in DOMAIN cs : cs[i].fn \in fns })
Signatures(cs) == [i \in DOMAIN cs |-> << cs[i].fn, cs[i].target, cs[i].key >>]

BindFns == { "use", "activate", "bindBuffers", "bind" }
DrawFns == { "drawElements", "drawArrays" }

\* C1: in every draw a bind is issued exactly when the resource differs from the
\* cached one: use() iff a material is given and its shader is not current_shader,
\* activate() iff a material is given and is not current_material, bindBuffers()
\* iff the vertex buffer is not current_vertex_buffer, bind() iff an index buffer is
\* given and is not current_index_buffer; each at most once and on the argument.
\* A draw repeating the arguments of the draw just before it issues no bind.
C1_BindIffChanged ==
    [][last_op'.op = "draw" =>
        LET mat == last_op'.mat
            vertex_buffer == last_op'.vertex_buffer
            index_buffer == last_op'.index_buffer
        IN  /\ IssuesAny(calls', "use")
                 <=> (mat # Undefined /\ MaterialShader(mat) # current_shader)
            /\ IssuesAny(calls', "use") => Issues(calls', "use", MaterialShader(mat))
            /\ IssuesAny(calls', "activate") <=> (mat # Undefined /\ mat # current_material)
            /\ IssuesAny(calls', "activate") => Issues(calls', "activate", mat)
            /\ IssuesAny(calls', "bindBuffers") <=> (vertex_buffer # current_vertex_buffer)
            /\ IssuesAny(calls', "bindBuffers") => Issues(calls', "bindBuffers", vertex_buffer)
            /\ IssuesAny(calls', "bind")
                 <=> (index_buffer # Undefined /\ index_buffer # current_index_buffer)
            /\ IssuesAny(calls', "bind") => Issues(calls', "bind", index_buffer)
            /\ \A fn \in BindFns : NumCalls(calls', { fn }) <= 1
            /\ (last_op.op = "draw" /\ last_op' = last_op) => NumCalls(calls', BindFns) = 0
    ]_vars

\* a draw with a material and an index buffer that re-activated the material only
C1_Witness ==
    /\ last_op.op = "draw"
    /\ last_op.mat # Undefined
    /\ last_op.index_buffer # Undefined
    /\ Signatures(SelectSeq(calls, LAMBDA c : c.fn \in BindFns))
          = << << "activate", last_op.mat, "" >> >>

\* C2: when a draw issues its draw command, the vertex buffer, index buffer,
\* shader and material most recently bound by the renderer are the ones of the
\* draw's arguments (index buffer, shader and material when given).
C2_NoNeededBindSkipped ==
    (last_op.op = "draw" /\ thrown = NoError) =>
        /\ gl_vertex_buffer = last_op.vertex_buffer
        /\ last_op.index_buffer # Undefined => gl_index_buffer = last_op.index_buffer
        /\ last_op.mat # Undefined =>
              /\ gl_program = MaterialShader(last_op.mat)
              /\ gl_material = last_op.mat

\* a draw with index buffer and material for which every bind was skipped
C2_Witness ==
    /\ last_op.op = "draw"
    /\ thrown = NoError
    /\ last_op.index_buffer # Undefined
    /\ last_op.mat # Undefined
    /\ NumCalls(calls, BindFns) = 0
    /\ NumCalls(calls, DrawFns) = 1

\* C3: a draw that returns normally issues exactly one draw command, as its last
\* call: drawElements(draw_mode, count, UNSIGNED_SHORT, offset) for a 2-byte index
\* buffer, drawElements(draw_mode, count, UNSIGNED_INT, offset) for a 4-byte one,
\* drawArrays(draw_mode, offset, count) without index buffer.
C3_OneDrawCommand ==
    (last_op.op = "draw" /\ thrown = NoError) =>
        /\ NumCalls(calls, DrawFns) = 1
        /\ Len(calls) >= 1
        /\ LET cmd == calls[Len(calls)]
           IN  /\ cmd.target = "gl"
               /\ IF last_op.index_buffer = Undefined
                  THEN /\ cmd.fn = "drawArrays"
                       /\ cmd.arg = << last_op.draw_mode, last_op.offset, last_op.count >>
                  ELSE /\ cmd.fn = "drawElements"
                       /\ BYTES_PER_ELEMENT(last_op.index_buffer) = 2 =>
                             cmd.arg = << last_op.draw_mode, last_op.count, 5123,
                                          last_op.offset >>
                       /\ BYTES_PER_ELEMENT(last_op.index_buffer) = 4 =>
                             cmd.arg = << last_op.draw_mode, last_op.count, 5125,
                                          last_op.offset >>
                       /\ BYTES_PER_ELEMENT(last_op.index_buffer) \in { 2, 4 }

\* the second draw of a frame, over a 4-byte index buffer
C3_Witness ==
    /\ last_op.op = "draw"
    /\ thrown = NoError
    /\ last_op.index_buffer = "ib_u32"
    /\ stats.draw_calls = 2
    /\ IssuesAny(calls, "drawElements")

\* C4: setPerFrameUniforms stages view, view_inverse, projection and
\* view_projection on the per-frame block and then calls update on it once; a
\* setPerModelUniforms that returns normally stages model, model_view, normal_view
\* and mvp on the per-model block and then calls update on it once; neither issues a
\* call on the other block.
C4_StageThenUpdateOnce ==
    /\ last_op.op = "setPerFrameUniforms" =>
          Signatures(calls) = << << "set", "ubo_per_frame", "view" >>,
                                 << "set", "ubo_per_frame", "view_inverse" >>,
                                 << "set", "ubo_per_frame", "projection" >>,
                                 << "set", "ubo_per_frame", "view_projection" >>,
                                 << "update", "ubo_per_frame", "" >> >>
    /\ (last_op.op = "setPerModelUniforms" /\ thrown = NoError) =>
          Signatures(calls) = << << "set", "ubo_per_model", "model" >>,
                                 << "set", "ubo_per_model", "model_view" >>,
                                 << "set", "ubo_per_model", "normal_view" >>,
                                 << "set", "ubo_per_model", "mvp" >>,
                                 << "update", "ubo_per_model", "" >> >>
    /\ last_op.op = "setPerModelUniforms" =>
          \A i \in DOMAIN calls : calls[i].target = "ubo_per_model"

\* a per-model upload after a per-frame upload
C4_Witness ==
    /\ last_op.op = "setPerModelUniforms"
    /\ thrown = NoError
    /\ "setPerFrameUniforms" \in since_draw
    /\ NumCalls(calls, { "update" }) = 1

\* C5: GetShader(name) is a shader for every name of ShaderSources, built with the
\* entry's subclass when it has one and with the base Shader otherwise, and is
\* undefined for any other name; every registered shader has the per-frame block
\* at binding point 0 and the per-model block at binding point 1.
C5_ShaderRegistry ==
    /\ \A i \in 1..Len(ShaderSources) :
          /\ GetShader(ShaderSources[i].name) # Undefined
          /\ GetShader(ShaderSources[i].name) \in DOMAIN shader_class
          /\ shader_class[GetShader(ShaderSources[i].name)] =
                (IF ShaderSources[i].subclass = Undefined
                 THEN "Shader" ELSE ShaderSources[i].subclass)
          /\ GetShader(ShaderSources[i].name) \in DOMAIN block_binding
          /\ block_binding[GetShader(ShaderSources[i].name)].ubo_per_frame = 0
          /\ block_binding[GetShader(ShaderSources[i].name)].ubo_per_model = 1
    /\ \A name \in QueriedNames :
          (\A i \in 1..Len(ShaderSources) : ShaderSources[i].name # name)
              => GetShader(name) = Undefined

\* a renderer constructed after an earlier one has drawn
C5_Witness ==
    /\ last_op.op = "constructor"
    /\ gl_program # Undefined
    /\ GetShader("GridShader") = "GridShader"

\* C6: the first draw after resetSaveBindings binds its vertex buffer, binds its
\* index buffer if given, and puts the shader in use and activates the material if
\* a material is given, whatever was bound before; resetSaveBindings changes no
\* statistics counter.
C6_ResetSaveBindingsRebinds ==
    [][/\ (last_op'.op = "draw" /\ "resetSaveBindings" \in since_draw') =>
             /\ Issues(calls', "bindBuffers", last_op'.vertex_buffer)
             /\ last_op'.index_buffer # Undefined =>
                   Issues(calls', "bind", last_op'.index_buffer)
             /\ last_op'.mat # Undefined =>
                   /\ Issues(calls', "use", MaterialShader(last_op'.mat))
                   /\ Issues(calls', "activate", last_op'.mat)
       /\ last_op'.op = "resetSaveBindings" => stats' = stats
    ]_vars

\* a draw after resetSaveBindings that issued all four binds, each for the second
\* time since the statistics were reset
C6_Witness ==
    /\ last_op.op = "draw"
    /\ "resetSaveBindings" \in since_draw
    /\ NumCalls(calls, BindFns) = 4
    /\ stats.shader_bind_count = 2
    /\ stats.material_bind_count = 2
    /\ stats.vertex_buffer_bind_count = 2
    /\ stats.index_buffer_bind_count = 2

\* C7: setPerFrameUniforms zeroes every statistics counter, clears current_shader
\* and current_material and leaves current_vertex_buffer and current_index_buffer
\* alone; a draw leaves its vertex buffer (and index buffer, if given) cached; so
\* the first draw with a material after setPerFrameUniforms uses the shader and
\* activates the material, and a draw right after setPerFrameUniforms does not
\* rebind a vertex or index buffer that is the cached one.
C7_PerFrameClearsShaderOnly ==
    [][/\ last_op'.op = "setPerFrameUniforms" =>
             /\ \A counter \in DOMAIN stats' : stats'[counter] = 0
             /\ current_shader' = Undefined
             /\ current_material' = Undefined
             /\ current_vertex_buffer' = current_vertex_buffer
             /\ current_index_buffer' = current_index_buffer
       /\ last_op'.op = "draw" =>
             /\ current_vertex_buffer' = last_op'.vertex_buffer
             /\ last_op'.index_buffer # Undefined =>
                   current_index_buffer' = last_op'.index_buffer
       /\ (last_op'.op = "draw" /\ "setPerFrameUniforms" \in since_draw'
              /\ last_op'.mat # Undefined) =>
             /\ Issues(calls', "use", MaterialShader(last_op'.mat))
             /\ Issues(calls', "activate", last_op'.mat)
       /\ (last_op'.op = "draw" /\ last_op.op = "setPerFrameUniforms") =>
             /\ last_op'.vertex_buffer = current_vertex_buffer =>
                   ~IssuesAny(calls', "bindBuffers")
             /\ last_op'.index_buffer = current_index_buffer =>
                   ~IssuesAny(calls', "bind")
    ]_vars

\* the draw that opens a frame with the buffers and material of the draw before
\* the frame: shader and material are bound again, the buffers are not
C7_Witness ==
    /\ last_op.op = "draw"
    /\ since_draw = { "setPerFrameUniforms" }
    /\ last_op.index_buffer # Undefined
    /\ last_op.mat # Undefined
    /\ gl_index_buffer = last_op.index_buffer
    /\ Signatures(SelectSeq(calls, LAMBDA c : c.fn \in BindFns))
          = << << "use", MaterialShader(last_op.mat), "" >>,
               << "activate", last_op.mat, "" >> >>

\* C8: a draw given an index buffer whose element size is neither 2 nor 4 throws
\* "Unknown index buffer type", issues no draw command and leaves draw_calls,
\* index_draw_count and vertex_draw_count unchanged, while the cached bindings are
\* those of its arguments and the bind counters count the binds it issued.
C8_UnknownIndexTypeThrows ==
    [][(/\ last_op'.op = "draw"
        /\ last_op'.index_buffer # Undefined
        /\ BYTES_PER_ELEMENT(last_op'.index_buffer) \notin { 2, 4 }) =>
          /\ thrown' = "Unknown index buffer type"
          /\ NumCalls(calls', DrawFns) = 0
          /\ stats'.draw_calls = stats.draw_calls
          /\ stats'.index_draw_count = stats.index_draw_count
          /\ stats'.vertex_draw_count = stats.vertex_draw_count
          /\ current_vertex_buffer' = last_op'.vertex_buffer
          /\ current_index_buffer' = last_op'.index_buffer
          /\ last_op'.mat # Undefined =>
                /\ current_material' = last_op'.mat
                /\ current_shader' = MaterialShader(last_op'.mat)
          /\ stats'.shader_bind_count =
                stats.shader_bind_count + NumCalls(calls', { "use" })
          /\ stats'.material_bind_count =
                stats.material_bind_count + NumCalls(calls', { "activate" })
          /\ stats'.vertex_buffer_bind_count =
                stats.vertex_buffer_bind_count + NumCalls(calls', { "bindBuffers" })
          /\ stats'.index_buffer_bind_count =
                stats.index_buffer_bind_count + NumCalls(calls', { "bind" })
    ]_vars

\* a failed draw, after a successful one, that bound all it was given
C8_Witness ==
    /\ last_op.op = "draw"
    /\ thrown = UnknownIndexBufferType
    /\ stats.draw_calls = 1
    /\ stats.index_draw_count + stats.vertex_draw_count > 0
    /\ NumCalls(calls, BindFns) = 4
    /\ current_index_buffer = "ib_u8"
    /\ stats.index_buffer_bind_count = 2

\* C9: with a singular model-view matrix setPerModelUniforms throws "Determinant
\* could not be calculated for normalview_matrix" after staging model and
\* model_view, and stages nothing else and does not call update.
C9_SingularModelViewThrows ==
    (last_op.op = "setPerModelUniforms" /\ det(mul(last_op.view, last_op.model)) = 0) =>
        /\ thrown = "Determinant could not be calculated for normalview_matrix"
        /\ ~IssuesAny(calls, "update")
        /\ calls = << SetCall("ubo_per_model", "model", last_op.model),
                      SetCall("ubo_per_model", "model_view",
                              mul(last_op.view, last_op.model)) >>

\* a call that failed on a singular view matrix
C9_Witness ==
    /\ last_op.op = "setPerModelUniforms"
    /\ last_op.view = Singular
    /\ last_op.model = Shear
    /\ thrown = DeterminantError
    /\ Len(calls) = 2

\* C10: a setPerModelUniforms call with an invertible model-view matrix that
\* follows a call that threw on a singular one returns normally and uploads the
\* per-model block.
C10_FailureDoesNotPoison ==
    [][(/\ last_op.op = "setPerModelUniforms"
        /\ thrown = DeterminantError
        /\ last_op'.op = "setPerModelUniforms"
        /\ det(mul(last_op'.view, last_op'.model)) # 0) =>
          /\ thrown' = NoError
          /\ Issues(calls', "update", "ubo_per_model")
    ]_vars

\* C11: draw_calls is the number of draws that returned normally since the
\* statistics were last reset (by resetStats, by setPerFrameUniforms, or by
\* constructing the renderer), index_draw_count is the sum of count over those of
\* them that had an index buffer and vertex_draw_count the sum over those that
\* had none.
C11_StatsCountReturnedDraws ==
    /\ stats.draw_calls = returned_draws.number
    /\ stats.index_draw_count = returned_draws.indexed_count
    /\ stats.vertex_draw_count = returned_draws.array_count

\* the first draw of a frame that follows a frame with draws: the vertex buffer is
\* still cached from the earlier frame, and only this draw is counted
C11_Witness ==
    /\ last_op.op = "draw"
    /\ thrown = NoError
    /\ "setPerFrameUniforms" \in since_draw
    /\ ~IssuesAny(calls, "bindBuffers")
    /\ returned_draws.number = 1
    /\ stats.draw_calls = 1
    /\ stats.index_draw_count + stats.vertex_draw_count = last_op.count

\* C12: the per-frame block that setPerFrameUniforms(view, proj) uploads holds the
\* inverse of view as view_inverse and proj * view as view_projection, although
\* both were computed into the same scratch matrix temp.
C12_ScratchNotOverwritten ==
    last_op.op = "setPerFrameUniforms" =>
        /\ Len(calls) >= 1
        /\ LET upload == calls[Len(calls)]
               view_inverse == SubSeq(upload.arg, 5, 8)
               view_projection == SubSeq(upload.arg, 13, 16)
           IN  /\ upload.fn = "update"
               /\ upload.target = "ubo_per_frame"
               /\ Len(upload.arg) = 16
               /\ mul(view_inverse, last_op.view) = << 1, 0, 0, 1 >>
               /\ mul(last_op.view, view_inverse) = << 1, 0, 0, 1 >>
               /\ view_projection = mul(last_op.proj, last_op.view)

\* an upload whose view_inverse and view_projection differ from each other and
\* from the identity
C12_Witness ==
    /\ last_op.op = "setPerFrameUniforms"
    /\ last_op.view = Shear
    /\ last_op.proj = Flip
    /\ temp = << 0, 1, 1, 1 >>
    /\ SubSeq(calls[Len(calls)].arg, 5, 8) = << 1, -1, 0, 1 >>
    /\ SubSeq(calls[Len(calls)].arg, 13, 16) = << 0, 1, 1, 1 >>

\* C13: the cached material is defined iff the cached shader is, and the cached
\* shader is then the cached material's shader.
C13_CachedShaderMatchesMaterial ==
    /\ (current_material # Undefined) <=> (current_shader # Undefined)
    /\ current_material # Undefined => current_shader = MaterialShader(current_material)

\* the cache kept by a draw without material that followed a draw with one
C13_Witness ==
    /\ last_op.op = "draw"
    /\ last_op.mat = Undefined
    /\ current_material = "grid"
    /\ current_shader = "GridShader"
    /\ stats.shader_bind_count = 1
    /\ stats.draw_calls = 2

====
